---- MODULE Spec2Model ----
(***************************************************************************)
(* Content access layer of the blog front-end (src/lib/posts.js) and the   *)
(* detail page that consumes it (src/pages/posts/[id].js,                  *)
(* src/components/date.js).                                                *)
(*                                                                         *)
(* Strings are sequences of one-character strings, so that toString,       *)
(* localeCompare, replace and parseISO are computed character by           *)
(* character.  A JSON object is a function from field names to values; a   *)
(* field the object lacks is absent from its DOMAIN (reading it yields     *)
(* undefined in the source).                                               *)
(***************************************************************************)
EXTENDS Integers, Sequences, FiniteSets, TLC

VARIABLES upstream, clock, pc, idRequested, ret, page,
          requests, console, staticPaths, recorded, changes

vars == <<upstream, clock, pc, idRequested, ret, page,
          requests, console, staticPaths, recorded, changes>>

(***************************************************************************)
(* Bounds                                                                  *)
(***************************************************************************)
MaxLen == 3
MaxClock == 1
MaxChanges == 2

(***************************************************************************)
(* String literals                                                         *)
(***************************************************************************)
EmptyString == <<>>
Beta == <<"B", "e", "t", "a">>
Alpha == <<"A", "l", "p", "h", "a">>
alpha == <<"a", "l", "p", "h", "a">>
DateBeta == <<"2","0","2","5","-","0","1","-","0","2"," ","1","0",":","0","0",":","0","0">>
DateAlpha == <<"2","0","2","5","-","0","1","-","0","1"," ","0","9",":","0","0",":","0","0">>
HtmlBeta == <<"<","p",">","b","<","/","p",">">>
HtmlAlpha == <<"<","p",">","a","<","/","p",">">>
HtmlOther == <<"<","b",">","&","<","/","b",">">>
ErrorTitle == <<"E","r","r","o","r"," ","l","o","a","d","i","n","g"," ","p","o","s","t">>
ErrorHtml == <<"<","p",">","U","n","a","b","l","e"," ","t","o"," ","l","o","a","d"," ","p","o","s","t"," ","c","o","n","t","e","n","t",".","<","/","p",">">>

Digits == <<"0", "1", "2", "3", "4", "5", "6", "7", "8", "9">>
LowerCase == <<"a","b","c","d","e","f","g","h","i","j","k","l","m","n","o","p","q","r","s","t","u","v","w","x","y","z">>
UpperCase == <<"A","B","C","D","E","F","G","H","I","J","K","L","M","N","O","P","Q","R","S","T","U","V","W","X","Y","Z">>

IndexOf(c, alphabet) ==
    IF \E i \in 1..Len(alphabet) : alphabet[i] = c
    THEN CHOOSE i \in 1..Len(alphabet) : alphabet[i] = c
    ELSE 0

IsDigit(c) == IndexOf(c, Digits) # 0

\* the number that the decimal digits str[from..to] denote
Number(str, from, to) ==
    LET RECURSIVE Value(_)
        Value(i) == IF i < from THEN 0
                    ELSE 10 * Value(i - 1) + (IndexOf(str[i], Digits) - 1)
    IN Value(to)

(***************************************************************************)
(* String.prototype.replace with a one-character pattern: only the first   *)
(* occurrence is replaced.                                                 *)
(***************************************************************************)
RECURSIVE replace(_, _, _)
replace(str, pattern, replacement) ==
    IF str = <<>> THEN <<>>
    ELSE IF Head(str) = pattern THEN <<replacement>> \o Tail(str)
    ELSE <<Head(str)>> \o replace(Tail(str), pattern, replacement)

(***************************************************************************)
(* Number.prototype.toString for a non-negative integer: the canonical     *)
(* decimal form, most significant digit first, no leading zero.            *)
(***************************************************************************)
RECURSIVE toString(_)
toString(n) ==
    IF n < 10 THEN <<Digits[n + 1]>>
    ELSE toString(n \div 10) \o <<Digits[(n % 10) + 1]>>

(***************************************************************************)
(* String.prototype.localeCompare on letters: first the letters compared   *)
(* without regard to case, a proper prefix first; when these agree, the    *)
(* first position whose case differs decides, lower case first.            *)
(***************************************************************************)
Primary(c) ==
    IF IndexOf(c, LowerCase) # 0 THEN IndexOf(c, LowerCase)
    ELSE IndexOf(c, UpperCase)

Tertiary(c) == IF IndexOf(c, UpperCase) # 0 THEN 1 ELSE 0

Key(c, level) == IF level = 1 THEN Primary(c) ELSE Tertiary(c)

RECURSIVE CompareKeys(_, _, _)
CompareKeys(a, b, level) ==
    IF a = <<>> /\ b = <<>> THEN 0
    ELSE IF a = <<>> THEN -1
    ELSE IF b = <<>> THEN 1
    ELSE IF Key(Head(a), level) < Key(Head(b), level) THEN -1
    ELSE IF Key(Head(a), level) > Key(Head(b), level) THEN 1
    ELSE CompareKeys(Tail(a), Tail(b), level)

localeCompare(a, b) ==
    IF CompareKeys(a, b, 1) # 0 THEN CompareKeys(a, b, 1)
    ELSE CompareKeys(a, b, 3)

(***************************************************************************)
(* RemotePost records served by the endpoint                               *)
(***************************************************************************)
RemotePost(id, title, date, content) ==
    [ID |-> id, post_title |-> title, post_date |-> date, post_content |-> content]

Posts ==
    { RemotePost(3, Beta, DateBeta, HtmlBeta),
      RemotePost(10, Alpha, DateAlpha, HtmlAlpha),
      RemotePost(3, alpha, DateAlpha, HtmlOther) }

Collections == UNION { [1..n -> Posts] : n \in 0..MaxLen }

Has(obj, field) == field \in DOMAIN obj

Without(obj, field) == [f \in (DOMAIN obj) \ {field} |-> obj[f]]

(***************************************************************************)
(* What the endpoint does with a request.  "ok" serves the collection as a *)
(* JSON array; the other modes are the failures and the bodies that parse  *)
(* but are not an array of RemotePost.                                     *)
(***************************************************************************)
FailureModes == {"networkError", "non2xx", "malformedBody"}
NonArrayModes == {"nullBody", "numberBody", "objectBody"}
MissingFieldModes == {"missingID", "missingTitle"}
Modes == {"ok"} \cup FailureModes \cup NonArrayModes \cup MissingFieldModes

RequestedIds == { <<"3">>, <<"1", "0">>, <<"9", "9">>, <<"0", "3">> }

(***************************************************************************)
(* got(dataURL) followed by JSON.parse(response.body): either the parsed   *)
(* value, or the exception that the try block catches.                     *)
(***************************************************************************)
\* got configured not to raise on a non-2xx status: the error document is parsed
Fetch_statusIgnored(up) ==
    CASE up.mode \in FailureModes \ {"non2xx"} ->
            [threw |-> TRUE, type |-> "none", items |-> <<>>]
      [] up.mode \in NonArrayModes \cup {"non2xx"} ->
            [threw |-> FALSE, type |-> "object", items |-> <<>>]
      [] up.mode = "missingID" ->
            [threw |-> FALSE, type |-> "array",
             items |-> [i \in 1..Len(up.posts) |-> Without(up.posts[i], "ID")]]
      [] up.mode = "missingTitle" ->
            [threw |-> FALSE, type |-> "array",
             items |-> [i \in 1..Len(up.posts) |-> Without(up.posts[i], "post_title")]]
      [] OTHER -> [threw |-> FALSE, type |-> "array", items |-> up.posts]

Fetch(up) ==
    CASE up.mode \in FailureModes -> [threw |-> TRUE, type |-> "none", items |-> <<>>]
      [] up.mode = "nullBody" -> [threw |-> FALSE, type |-> "null", items |-> <<>>]
      [] up.mode = "numberBody" -> [threw |-> FALSE, type |-> "number", items |-> <<>>]
      [] up.mode = "objectBody" -> [threw |-> FALSE, type |-> "object", items |-> <<>>]
      [] up.mode = "missingID" ->
            [threw |-> FALSE, type |-> "array",
             items |-> [i \in 1..Len(up.posts) |-> Without(up.posts[i], "ID")]]
      [] up.mode = "missingTitle" ->
            [threw |-> FALSE, type |-> "array",
             items |-> [i \in 1..Len(up.posts) |-> Without(up.posts[i], "post_title")]]
      [] OTHER -> [threw |-> FALSE, type |-> "array", items |-> up.posts]

(***************************************************************************)
(* The comparison function handed to sort, and Array.prototype.sort with   *)
(* it: a stable sort.  Each element is inserted after the elements that do *)
(* not compare greater than it.                                            *)
(***************************************************************************)
\* the operands of the comparison exchanged
compare_reversed(a, b) == localeCompare(b.post_title, a.post_title)

compare(a, b) == localeCompare(a.post_title, b.post_title)

\* an element that compares equal to one already placed is left out
RECURSIVE Insert_dropEqual(_, _)
Insert_dropEqual(x, sorted) ==
    IF sorted = <<>> THEN <<x>>
    ELSE IF compare(x, Head(sorted)) < 0 THEN <<x>> \o sorted
    ELSE IF compare(x, Head(sorted)) = 0 THEN sorted
    ELSE <<Head(sorted)>> \o Insert_dropEqual(x, Tail(sorted))

RECURSIVE Insert(_, _)
Insert(x, sorted) ==
    IF sorted = <<>> THEN <<x>>
    ELSE IF compare(x, Head(sorted)) < 0 THEN <<x>> \o sorted
    ELSE <<Head(sorted)>> \o Insert(x, Tail(sorted))

RECURSIVE sort(_)
sort(arr) ==
    IF arr = <<>> THEN <<>>
    ELSE Insert(arr[Len(arr)], sort(SubSeq(arr, 1, Len(arr) - 1)))

Returned(v) == [outcome |-> "returned", value |-> v]
Threw == [outcome |-> "threw", value |-> <<>>]
None == [outcome |-> "none", value |-> <<>>]

(***************************************************************************)
(* getSortedPostsData, from the point where the fetch outcome is known.    *)
(* The sort and the map run outside the try block: a value without a sort  *)
(* method, a comparison whose receiver has no post_title and an element    *)
(* without ID raise a TypeError that nothing catches.  The bodies served   *)
(* lack post_title in every element or in none, so with two or more        *)
(* elements the comparison function is certain to meet such a receiver.    *)
(***************************************************************************)
\* the date converted to ISO-8601 in the listing
PostSummary_isoDate(item) ==
    [id |-> toString(item.ID), title |-> item.post_title,
     date |-> replace(item.post_date, " ", "T")]

PostSummary(item) ==
    [id |-> toString(item.ID), title |-> item.post_title, date |-> item.post_date]

getSortedPostsData(up) ==
    LET jsonObj == Fetch(up) IN
    IF jsonObj.threw THEN Returned(<<>>)
    ELSE IF jsonObj.type # "array" THEN Threw
    ELSE IF Len(jsonObj.items) >= 2
            /\ \A i \in 1..Len(jsonObj.items) : ~Has(jsonObj.items[i], "post_title")
         THEN Threw
    ELSE IF \E i \in 1..Len(jsonObj.items) : ~Has(jsonObj.items[i], "ID") THEN Threw
    ELSE IF \E i \in 1..Len(jsonObj.items) : ~Has(jsonObj.items[i], "post_title")
         THEN Returned([i \in 1..Len(jsonObj.items) |->
                           [id |-> toString(jsonObj.items[i].ID),
                            date |-> jsonObj.items[i].post_date]])
    ELSE LET sorted == sort(jsonObj.items)
         IN Returned([i \in 1..Len(sorted) |-> PostSummary(sorted[i])])

(***************************************************************************)
(* getAllPostIds                                                           *)
(***************************************************************************)
RouteKey(item) == [params |-> [id |-> toString(item.ID)]]

\* the sort of getSortedPostsData applied here too
getAllPostIds_sorted(up) ==
    LET jsonObj == Fetch(up) IN
    IF jsonObj.threw THEN Returned(<<>>)
    ELSE IF jsonObj.type # "array" THEN Threw
    ELSE IF \E i \in 1..Len(jsonObj.items) : ~Has(jsonObj.items[i], "ID") THEN Threw
    ELSE IF \E i \in 1..Len(jsonObj.items) : ~Has(jsonObj.items[i], "post_title")
         THEN Threw
    ELSE LET sorted == sort(jsonObj.items)
         IN Returned([i \in 1..Len(sorted) |-> RouteKey(sorted[i])])

\* one response kept for both listings: the one getSortedPostsData last parsed
getAllPostIds_sharedCache(up) ==
    LET jsonObj == Fetch(IF ret["getSortedPostsData"].outcome = "returned"
                         THEN ret["getSortedPostsData"].seen ELSE up) IN
    IF jsonObj.threw THEN Returned(<<>>)
    ELSE IF jsonObj.type # "array" THEN Threw
    ELSE IF \E i \in 1..Len(jsonObj.items) : ~Has(jsonObj.items[i], "ID") THEN Threw
    ELSE Returned([i \in 1..Len(jsonObj.items) |-> RouteKey(jsonObj.items[i])])

getAllPostIds(up) ==
    LET jsonObj == Fetch(up) IN
    IF jsonObj.threw THEN Returned(<<>>)
    ELSE IF jsonObj.type # "array" THEN Threw
    ELSE IF \E i \in 1..Len(jsonObj.items) : ~Has(jsonObj.items[i], "ID") THEN Threw
    ELSE Returned([i \in 1..Len(jsonObj.items) |-> RouteKey(jsonObj.items[i])])

(***************************************************************************)
(* Date.prototype.toISOString of the instant t seconds into 2025-01-01.    *)
(***************************************************************************)
toISOString(t) ==
    <<"2","0","2","5","-","0","1","-","0","1","T","0","0",":","0","0",":">>
    \o <<Digits[(t \div 10) + 1], Digits[(t % 10) + 1]>>
    \o <<".","0","0","0","Z">>

(***************************************************************************)
(* getPostData                                                             *)
(***************************************************************************)
OrEmpty(obj, field) == IF Has(obj, field) THEN obj[field] ELSE EmptyString

\* the ids compared as numbers (parseInt(idRequested) against ID)
Filter_numeric(items, id) ==
    LET Match(i) == items[i].ID = Number(id, 1, Len(id))
        RECURSIVE Scan(_)
        Scan(i) == IF i > Len(items) THEN <<>>
                   ELSE IF Match(i) THEN <<items[i]>> \o Scan(i + 1)
                   ELSE Scan(i + 1)
    IN Scan(1)

\* jsonObj.filter(obj => obj.ID.toString() === idRequested)
Filter(items, id) ==
    LET Match(i) == toString(items[i].ID) = id
        RECURSIVE Scan(_)
        Scan(i) == IF i > Len(items) THEN <<>>
                   ELSE IF Match(i) THEN <<items[i]>> \o Scan(i + 1)
                   ELSE Scan(i + 1)
    IN Scan(1)

\* the date converted to ISO-8601 before it is returned
PostDetail_isoDate(objReturned, id) ==
    [id |-> IF Has(objReturned, "ID") /\ objReturned["ID"] # 0
            THEN toString(objReturned["ID"]) ELSE id,
     title |-> OrEmpty(objReturned, "post_title"),
     date |-> replace(OrEmpty(objReturned, "post_date"), " ", "T"),
     contentHtml |-> OrEmpty(objReturned, "post_content")]

\* the object returned for objReturned, the matched post or {}; a field that
\* is absent, 0 or "" gives way to the fallback after ? and ||
PostDetail(objReturned, id) ==
    [id |-> IF Has(objReturned, "ID") /\ objReturned["ID"] # 0
            THEN toString(objReturned["ID"]) ELSE id,
     title |-> OrEmpty(objReturned, "post_title"),
     date |-> OrEmpty(objReturned, "post_date"),
     contentHtml |-> OrEmpty(objReturned, "post_content")]

ErrorPost(id, now) ==
    [id |-> id, title |-> ErrorTitle, date |-> toISOString(now), contentHtml |-> ErrorHtml]

\* the failure of the fetch answered like a post that does not exist
getPostData_emptyOnError(up, id, now) ==
    LET jsonObj == Fetch(up) IN
    IF jsonObj.threw THEN Returned(PostDetail(<< >>, id))
    ELSE IF jsonObj.type # "array" THEN Threw
    ELSE IF \E i \in 1..Len(jsonObj.items) : ~Has(jsonObj.items[i], "ID") THEN Threw
    ELSE LET objMatch == Filter(jsonObj.items, id)
             objReturned == IF Len(objMatch) > 0 THEN objMatch[1] ELSE << >>
         IN Returned(PostDetail(objReturned, id))

\* a post that does not exist answered like a failure of the fetch
getPostData_errorOnMissing(up, id, now) ==
    LET jsonObj == Fetch(up) IN
    IF jsonObj.threw THEN Returned(ErrorPost(id, now))
    ELSE IF jsonObj.type # "array" THEN Threw
    ELSE IF \E i \in 1..Len(jsonObj.items) : ~Has(jsonObj.items[i], "ID") THEN Threw
    ELSE LET objMatch == Filter(jsonObj.items, id)
         IN IF Len(objMatch) > 0 THEN Returned(PostDetail(objMatch[1], id))
            ELSE Returned(ErrorPost(id, now))

\* the last of the matching posts taken instead of the first
getPostData_lastMatch(up, id, now) ==
    LET jsonObj == Fetch(up) IN
    IF jsonObj.threw THEN Returned(ErrorPost(id, now))
    ELSE IF jsonObj.type # "array" THEN Threw
    ELSE IF \E i \in 1..Len(jsonObj.items) : ~Has(jsonObj.items[i], "ID") THEN Threw
    ELSE LET objMatch == Filter(jsonObj.items, id)
             objReturned == IF Len(objMatch) > 0 THEN objMatch[Len(objMatch)] ELSE << >>
         IN Returned(PostDetail(objReturned, id))

\* the post looked up in the response that getAllPostIds parsed, when there is one
getPostData_routesCache(up, id, now) ==
    LET jsonObj == Fetch(IF ret["getAllPostIds"].outcome = "returned"
                         THEN ret["getAllPostIds"].seen ELSE up) IN
    IF jsonObj.threw THEN Returned(ErrorPost(id, now))
    ELSE IF jsonObj.type # "array" THEN Threw
    ELSE IF \E i \in 1..Len(jsonObj.items) : ~Has(jsonObj.items[i], "ID") THEN Threw
    ELSE LET objMatch == Filter(jsonObj.items, id)
             objReturned == IF Len(objMatch) > 0 THEN objMatch[1] ELSE << >>
         IN Returned(PostDetail(objReturned, id))

getPostData(up, id, now) ==
    LET jsonObj == Fetch(up) IN
    IF jsonObj.threw THEN Returned(ErrorPost(id, now))
    ELSE IF jsonObj.type # "array" THEN Threw
    ELSE IF \E i \in 1..Len(jsonObj.items) : ~Has(jsonObj.items[i], "ID") THEN Threw
    ELSE LET objMatch == Filter(jsonObj.items, id)
             objReturned == IF Len(objMatch) > 0 THEN objMatch[1] ELSE << >>
         IN Returned(PostDetail(objReturned, id))

(***************************************************************************)
(* Date component: the first space of dateString replaced by "T", then     *)
(* parseISO and format of date-fns.  parseISO yields an invalid date for   *)
(* text that is not an ISO-8601 date; format raises a RangeError on an     *)
(* invalid date.                                                           *)
(***************************************************************************)
AllDigits(str, positions) == \A i \in positions : IsDigit(str[i])

IsDatePart(str) ==
    /\ Len(str) >= 10
    /\ AllDigits(str, {1, 2, 3, 4, 6, 7, 9, 10})
    /\ str[5] = "-" /\ str[8] = "-"
    /\ Number(str, 6, 7) \in 1..12
    /\ Number(str, 9, 10) \in 1..31

IsTimePart(str) ==
    \/ Len(str) = 10
    \/ /\ Len(str) \in {19, 20, 23, 24}
       /\ str[11] \in {"T", " "}
       /\ AllDigits(str, {12, 13, 15, 16, 18, 19})
       /\ str[14] = ":" /\ str[17] = ":"
       /\ Number(str, 12, 13) \in 0..24
       /\ Number(str, 15, 16) \in 0..59
       /\ Number(str, 18, 19) \in 0..59
       /\ Len(str) \in {20, 24} => str[Len(str)] = "Z"
       /\ Len(str) \in {23, 24} => str[20] = "." /\ AllDigits(str, {21, 22, 23})

InvalidDate == [valid |-> FALSE, year |-> 0, month |-> 0, day |-> 0]

parseISO(str) ==
    IF IsDatePart(str) /\ IsTimePart(str)
    THEN [valid |-> TRUE, year |-> Number(str, 1, 4), month |-> Number(str, 6, 7),
          day |-> Number(str, 9, 10)]
    ELSE InvalidDate

format(date) ==
    IF ~date.valid THEN Threw
    ELSE Returned([LLLL |-> date.month, d |-> date.day, yyyy |-> date.year])

Date(dateString) ==
    LET isoDateString == replace(dateString, " ", "T")
        date == parseISO(isoDateString)
    IN IF format(date).outcome = "threw" THEN Threw
       ELSE Returned([dateTime |-> isoDateString, text |-> format(date).value])

(***************************************************************************)
(* Post component of the detail page, rendered with the props that         *)
(* getStaticProps returns.                                                 *)
(***************************************************************************)
Post(postData) ==
    IF Date(postData.date).outcome = "threw" THEN Threw
    ELSE Returned([title |-> postData.title, time |-> Date(postData.date).value,
                   html |-> postData.contentHtml])

(***************************************************************************)
(* console.log: the entry each operation writes once the outcome of its    *)
(* fetch is known, in the try block after JSON.parse or in the catch block.*)
(***************************************************************************)
SuccessMessage ==
    [getSortedPostsData |-> "Fetched posts data:",
     getAllPostIds |-> "Fetched post IDs:",
     getPostData |-> "Fetched post data:"]

ErrorMessage ==
    [getSortedPostsData |-> "Error fetching posts:",
     getAllPostIds |-> "Error fetching post IDs:",
     getPostData |-> "Error fetching post data:"]

\* the entry of the try block taken out, the entry of the catch block kept
Diagnostic_errorsOnly(op, up) ==
    IF Fetch(up).threw THEN <<[message |-> ErrorMessage[op], error |-> up.mode]>>
    ELSE <<>>

Diagnostic(op, up) ==
    IF Fetch(up).threw THEN <<[message |-> ErrorMessage[op], error |-> up.mode]>>
    ELSE <<[message |-> SuccessMessage[op], jsonObj |-> Fetch(up)]>>

(***************************************************************************)
(* getStaticPaths of the detail page, from the point where getAllPostIds   *)
(* has settled: an exception of getAllPostIds passes through.              *)
(***************************************************************************)
\* a build with no route to pre-render is given up
getStaticPaths_failsWhenEmpty(paths) ==
    IF paths.outcome = "threw" \/ paths.value = <<>> THEN Threw
    ELSE Returned([paths |-> paths.value, fallback |-> "blocking"])

getStaticPaths(paths) ==
    IF paths.outcome = "threw" THEN Threw
    ELSE Returned([paths |-> paths.value, fallback |-> "blocking"])

(***************************************************************************)
(* State machine.  Each operation suspends once, on its request to the     *)
(* endpoint, and runs to its return when the response arrives.             *)
(***************************************************************************)
Ops == {"getSortedPostsData", "getAllPostIds", "getPostData"}

Outcome(result, up, id) == result @@ [seen |-> up, idRequested |-> id]

NoOutcome == Outcome(None, [posts |-> <<>>, mode |-> "ok"], EmptyString)

\* the collection the content source holds at first, when it is one that changes
StartCollection ==
    << RemotePost(3, Beta, DateBeta, HtmlBeta),
       RemotePost(10, Alpha, DateAlpha, HtmlAlpha),
       RemotePost(3, alpha, DateAlpha, HtmlOther) >>

InitCalls ==
    /\ clock = 0
    /\ pc = [op \in Ops |-> "idle"]
    /\ idRequested = EmptyString
    /\ ret = [op \in Ops |-> NoOutcome]
    /\ page = None
    /\ requests = [op \in Ops |-> 0]
    /\ console = [op \in Ops |-> <<>>]
    /\ staticPaths = None
    /\ recorded = None
    /\ changes = 0

Init ==
    /\ upstream \in [posts : Collections, mode : Modes]
    /\ InitCalls

\* no request when another operation already holds a response
Request_reusesResponse(op) ==
    /\ pc[op] = "idle"
    /\ pc' = [pc EXCEPT ![op] = "await"]
    /\ ret' = [ret EXCEPT ![op] = NoOutcome]
    /\ requests' = [requests EXCEPT ![op] =
                       IF \E other \in Ops \ {op} : ret[other].outcome # "none"
                       THEN 0 ELSE 1]
    /\ console' = [console EXCEPT ![op] = <<>>]

\* the call up to await got(dataURL): one request leaves for the endpoint
Request(op) ==
    /\ pc[op] = "idle"
    /\ pc' = [pc EXCEPT ![op] = "await"]
    /\ ret' = [ret EXCEPT ![op] = NoOutcome]
    /\ requests' = [requests EXCEPT ![op] = 1]
    /\ console' = [console EXCEPT ![op] = <<>>]

\* the response has arrived: the rest of the function runs to its end
Respond(op, result) ==
    /\ pc[op] = "await"
    /\ pc' = [pc EXCEPT ![op] = "idle"]
    /\ ret' = [ret EXCEPT ![op] = result @@ [at |-> changes]]
    /\ console' = [console EXCEPT ![op] = console[op] \o Diagnostic(op, upstream)]
    /\ UNCHANGED requests

Call_getSortedPostsData ==
    /\ Request("getSortedPostsData")
    /\ UNCHANGED <<upstream, clock, idRequested, page, staticPaths, recorded, changes>>

Resume_getSortedPostsData ==
    /\ Respond("getSortedPostsData",
               Outcome(getSortedPostsData(upstream), upstream, EmptyString))
    /\ UNCHANGED <<upstream, clock, idRequested, page, staticPaths, recorded, changes>>

\* getStaticPaths() calls getAllPostIds()
Call_getAllPostIds ==
    /\ Request("getAllPostIds")
    /\ staticPaths' = None
    /\ UNCHANGED <<upstream, clock, idRequested, page, recorded, changes>>

Resume_getAllPostIds ==
    /\ Respond("getAllPostIds", Outcome(getAllPostIds(upstream), upstream, EmptyString))
    /\ staticPaths' = getStaticPaths(getAllPostIds(upstream))
    /\ UNCHANGED <<upstream, clock, idRequested, page, recorded, changes>>

\* getStaticProps({params}) calls getPostData(params.id)
Call_getPostData ==
    /\ Request("getPostData")
    /\ idRequested' \in RequestedIds
    /\ page' = None
    /\ UNCHANGED <<upstream, clock, staticPaths, recorded, changes>>

Resume_getPostData ==
    /\ Respond("getPostData",
               Outcome(getPostData(upstream, idRequested, clock), upstream, idRequested)
               @@ [now |-> clock])
    /\ UNCHANGED <<upstream, clock, idRequested, page, staticPaths, recorded, changes>>

\* the page is rendered from the props once getStaticProps has returned them
Render_Post ==
    /\ ret["getPostData"].outcome = "returned"
    /\ page = None
    /\ page' = Post(ret["getPostData"].value)
    /\ UNCHANGED <<upstream, clock, pc, idRequested, ret, requests, console,
                   staticPaths, recorded, changes>>

Tick ==
    /\ clock < MaxClock
    /\ clock' = clock + 1
    /\ UNCHANGED <<upstream, pc, idRequested, ret, page, requests, console,
                   staticPaths, recorded, changes>>

\* the endpoint becomes unreachable
Outage ==
    /\ changes < MaxChanges
    /\ upstream.mode = "ok"
    /\ upstream' = [upstream EXCEPT !.mode = "networkError"]
    /\ changes' = changes + 1
    /\ UNCHANGED <<clock, pc, idRequested, ret, page, requests, console,
                   staticPaths, recorded>>

\* the endpoint serves the collection again
Restore ==
    /\ changes < MaxChanges
    /\ upstream.mode \in FailureModes
    /\ upstream' = [upstream EXCEPT !.mode = "ok"]
    /\ changes' = changes + 1
    /\ UNCHANGED <<clock, pc, idRequested, ret, page, requests, console,
                   staticPaths, recorded>>

\* a post is deleted at the content source
RemovePost ==
    /\ changes < MaxChanges
    /\ \E i \in 1..Len(upstream.posts) :
          upstream' = [upstream EXCEPT !.posts =
                          SubSeq(upstream.posts, 1, i - 1)
                          \o SubSeq(upstream.posts, i + 1, Len(upstream.posts))]
    /\ changes' = changes + 1
    /\ UNCHANGED <<clock, pc, idRequested, ret, page, requests, console,
                   staticPaths, recorded>>

\* a caller keeps the value an operation returned to it, to compare it with
\* what a later call of the same operation returns
Record ==
    /\ recorded.outcome = "none"
    /\ \E op \in Ops :
          /\ ret[op].outcome # "none"
          /\ recorded' = ret[op] @@ [op |-> op]
          /\ ret' = [ret EXCEPT ![op] = NoOutcome]
    /\ UNCHANGED <<upstream, clock, pc, idRequested, page, requests, console,
                   staticPaths, changes>>

Next ==
    \/ Call_getSortedPostsData
    \/ Resume_getSortedPostsData
    \/ Call_getAllPostIds
    \/ Resume_getAllPostIds
    \/ Call_getPostData
    \/ Resume_getPostData
    \/ Render_Post
    \/ Tick

Spec == Init /\ [][Next]_vars

(***************************************************************************)
(* The same operations against an endpoint that fails and recovers while   *)
(* they run, with a caller that compares what two calls return.            *)
(***************************************************************************)
InitLive ==
    /\ upstream = [posts |-> StartCollection, mode |-> "ok"]
    /\ InitCalls

NextOutage ==
    \/ Call_getSortedPostsData
    \/ Resume_getSortedPostsData
    \/ Call_getAllPostIds
    \/ Resume_getAllPostIds
    \/ Call_getPostData
    \/ Resume_getPostData
    \/ Tick
    \/ Outage
    \/ Restore
    \/ Record

SpecOutage == InitLive /\ [][NextOutage]_vars

(***************************************************************************)
(* The same operations against a content source whose posts are deleted    *)
(* while they run.                                                         *)
(***************************************************************************)
NextRemoval ==
    \/ Call_getSortedPostsData
    \/ Resume_getSortedPostsData
    \/ Call_getAllPostIds
    \/ Resume_getAllPostIds
    \/ Call_getPostData
    \/ Resume_getPostData
    \/ Render_Post
    \/ RemovePost

SpecRemoval == InitLive /\ [][NextRemoval]_vars

(***************************************************************************)
(* Properties                                                              *)
(***************************************************************************)
Summaries == ret["getSortedPostsData"]
RouteKeys == ret["getAllPostIds"]
Detail == ret["getPostData"]

UpstreamFailure(r) == r.seen.mode \in FailureModes
SuccessfulFetch(r) == r.seen.mode = "ok"

\* str is the decimal numeral of n without a leading zero
IsCanonicalFormOf(str, n) ==
    /\ Len(str) >= 1
    /\ \A i \in 1..Len(str) : IsDigit(str[i])
    /\ Len(str) > 1 => str[1] # "0"
    /\ Number(str, 1, Len(str)) = n

Present(id, posts) == \E i \in 1..Len(posts) : IsCanonicalFormOf(id, posts[i].ID)

EmptyFields(id) ==
    [id |-> id, title |-> EmptyString, date |-> EmptyString, contentHtml |-> EmptyString]

Bijections(n) == { f \in [1..n -> 1..n] : \A i, j \in 1..n : f[i] = f[j] => i = j }

\* C1: after an upstream failure (network error, non-2xx status, malformed
\* body) getSortedPostsData and getAllPostIds each return the empty sequence
\* and do not raise.
C1_EmptyOnFailure ==
    \A op \in {"getSortedPostsData", "getAllPostIds"} :
        (ret[op].outcome # "none" /\ UpstreamFailure(ret[op]))
            => (ret[op].outcome = "returned" /\ ret[op].value = <<>>)

C1_Witness ==
    /\ Summaries.outcome = "returned" /\ RouteKeys.outcome = "returned"
    /\ Summaries.seen.mode = "non2xx" /\ RouteKeys.seen.mode = "non2xx"
    /\ Len(Summaries.seen.posts) = MaxLen
    /\ Summaries.value = <<>> /\ RouteKeys.value = <<>>

\* C2: after an upstream failure getPostData(x) returns the error post: id x,
\* title "Error loading post", the fixed non-empty body, and the current
\* instant as an ISO-8601 date; never the post found nor the empty fields.
C2_ErrorPostOnFailure ==
    (Detail.outcome # "none" /\ UpstreamFailure(Detail))
        => /\ Detail.outcome = "returned"
           /\ Detail.value.id = Detail.idRequested
           /\ Detail.value.title = ErrorTitle
           /\ Detail.value.contentHtml = ErrorHtml
           /\ Detail.value.contentHtml # EmptyString
           /\ Detail.value.date = toISOString(Detail.now)
           /\ parseISO(Detail.value.date).valid
           /\ Detail.value # EmptyFields(Detail.idRequested)

C2_Witness ==
    /\ Detail.outcome = "returned"
    /\ Detail.seen.mode = "networkError"
    /\ Detail.idRequested = <<"3">>
    /\ Present(<<"3">>, Detail.seen.posts)
    /\ Detail.now = MaxClock
    /\ Detail.value.title = ErrorTitle

\* C3: no operation raises, whatever the endpoint returns, a body that parses
\* but is not an array of RemotePost included.
C3_NeverThrows == \A op \in Ops : ret[op].outcome # "threw"

C6_RouteKeysInUpstreamOrder ==
    (RouteKeys.outcome = "returned" /\ SuccessfulFetch(RouteKeys))
        => /\ Len(RouteKeys.value) = Len(RouteKeys.seen.posts)
           /\ \A i \in 1..Len(RouteKeys.value) :
                 /\ DOMAIN RouteKeys.value[i] = {"params"}
                 /\ DOMAIN RouteKeys.value[i].params = {"id"}
                 /\ IsCanonicalFormOf(RouteKeys.value[i].params.id,
                                      RouteKeys.seen.posts[i].ID)

C6_Witness ==
    /\ RouteKeys.outcome = "returned" /\ SuccessfulFetch(RouteKeys)
    /\ Len(RouteKeys.value) = 3
    /\ RouteKeys.value[1].params.id = <<"3">>
    /\ RouteKeys.value[2].params.id = <<"1", "0">>
    /\ RouteKeys.value[3].params.id = <<"3">>
    /\ sort(RouteKeys.seen.posts) # RouteKeys.seen.posts

C8_MissingPostEmptyFields ==
    (/\ Detail.outcome = "returned" /\ SuccessfulFetch(Detail)
     /\ ~Present(Detail.idRequested, Detail.seen.posts))
        => /\ Detail.value = EmptyFields(Detail.idRequested)
           /\ Detail.value.title # ErrorTitle

C8_Witness ==
    /\ Detail.outcome = "returned" /\ SuccessfulFetch(Detail)
    /\ Detail.idRequested = <<"9", "9">>
    /\ Len(Detail.seen.posts) = 2
    /\ Detail.value = EmptyFields(<<"9", "9">>)

\* C9 as stated: the id of every PostSummary, RouteKey and PostDetail that an
\* operation returns is the decimal form of an upstream ID.
C9_EveryIdIsUpstreamId ==
    /\ Summaries.outcome = "returned"
          => \A i \in 1..Len(Summaries.value) :
                Present(Summaries.value[i].id, Summaries.seen.posts)
    /\ RouteKeys.outcome = "returned"
          => \A i \in 1..Len(RouteKeys.value) :
                Present(RouteKeys.value[i].params.id, RouteKeys.seen.posts)
    /\ Detail.outcome = "returned" => Present(Detail.value.id, Detail.seen.posts)

\* C9 amended: the id of every PostSummary and RouteKey, and of the PostDetail
\* of a post that was found, is the decimal form of an upstream ID; a
\* PostDetail has a title, date or content only when idRequested is, character
\* for character, the decimal form of an upstream ID, and carries idRequested
\* as its id in every case.
C9_CanonicalIds ==
    /\ (Summaries.outcome = "returned" /\ SuccessfulFetch(Summaries))
          => \A i \in 1..Len(Summaries.value) :
                Present(Summaries.value[i].id, Summaries.seen.posts)
    /\ (RouteKeys.outcome = "returned" /\ SuccessfulFetch(RouteKeys))
          => \A i \in 1..Len(RouteKeys.value) :
                Present(RouteKeys.value[i].params.id, RouteKeys.seen.posts)
    /\ (Detail.outcome = "returned" /\ SuccessfulFetch(Detail))
          => /\ Detail.value.id = Detail.idRequested
             /\ Detail.value # EmptyFields(Detail.idRequested)
                   => Present(Detail.value.id, Detail.seen.posts)
    /\ (Detail.outcome = "returned" /\ UpstreamFailure(Detail))
          => Detail.value.id = Detail.idRequested

C9_Witness ==
    /\ Detail.outcome = "returned" /\ SuccessfulFetch(Detail)
    /\ Detail.idRequested = <<"0", "3">>
    /\ \E i \in 1..Len(Detail.seen.posts) : Detail.seen.posts[i].ID = 3
    /\ Detail.value = EmptyFields(<<"0", "3">>)
    /\ Summaries.outcome = "returned" /\ Len(Summaries.value) = 2
    /\ RouteKeys.outcome = "returned" /\ Len(RouteKeys.value) = 2

\* C10: the detail page of an id that does not exist, whose props are the
\* empty fields (date ""), is rendered by Post and Date without an exception.
C10_MissingPostRenders ==
    (/\ page.outcome # "none"
     /\ Detail.outcome = "returned"
     /\ Detail.value = EmptyFields(Detail.idRequested))
        => page.outcome = "returned"

\* the two outcomes come from the same inputs: the response to the own
\* request, idRequested and, where the fetch failed in getPostData, the clock
SameInputs(op, a, b) ==
    /\ a.seen = b.seen
    /\ a.idRequested = b.idRequested
    /\ (op = "getPostData" /\ UpstreamFailure(a)) => a.now = b.now

C13_OneDiagnosticPerInvocation ==
    \A op \in Ops :
        /\ pc[op] = "await" => console[op] = <<>>
        /\ ret[op].outcome # "none"
              => /\ Len(console[op]) = 1
                 /\ console[op][1].message =
                       IF UpstreamFailure(ret[op]) THEN ErrorMessage[op]
                       ELSE SuccessMessage[op]

C13_Witness ==
    /\ Summaries.outcome = "returned" /\ SuccessfulFetch(Summaries)
    /\ Len(Summaries.value) = 2
    /\ console["getSortedPostsData"] =
          <<[message |-> "Fetched posts data:", jsonObj |-> Fetch(Summaries.seen)]>>
    /\ Detail.outcome = "returned"
    /\ console["getPostData"][1].message = "Fetched post data:"
    /\ pc["getAllPostIds"] = "await"
    /\ console["getAllPostIds"] = <<>>

\* the position of the first record of posts whose ID has the decimal form id
FirstMatch(id, posts) ==
    CHOOSE i \in 1..Len(posts) :
        /\ IsCanonicalFormOf(id, posts[i].ID)
        /\ \A j \in 1..(i - 1) : ~IsCanonicalFormOf(id, posts[j].ID)

\* C14: when several records of a successful fetch have idRequested as the
\* decimal form of their ID, getPostData returns the fields of the first of
\* them in upstream order.
C14_FirstMatchWins ==
    (/\ Detail.outcome = "returned" /\ SuccessfulFetch(Detail)
     /\ Present(Detail.idRequested, Detail.seen.posts))
        => LET first == Detail.seen.posts[FirstMatch(Detail.idRequested, Detail.seen.posts)]
           IN Detail.value = [id |-> Detail.idRequested,
                              title |-> first.post_title,
                              date |-> first.post_date,
                              contentHtml |-> first.post_content]

C14_Witness ==
    /\ Detail.outcome = "returned" /\ SuccessfulFetch(Detail)
    /\ Detail.idRequested = <<"3">>
    /\ Detail.seen.posts =
          << RemotePost(10, Alpha, DateAlpha, HtmlAlpha),
             RemotePost(3, alpha, DateAlpha, HtmlOther),
             RemotePost(3, Beta, DateBeta, HtmlBeta) >>
    /\ Detail.value.title = alpha
    /\ Detail.value.contentHtml = HtmlOther

\* C15: when the fetch of getAllPostIds fails, getStaticPaths returns no path
\* and fallback 'blocking' instead of raising; whenever getAllPostIds returns,
\* getStaticPaths returns exactly its result as paths, with fallback
\* 'blocking'.
C15_StaticPathsSurviveFailure ==
    /\ (RouteKeys.outcome # "none" /\ UpstreamFailure(RouteKeys))
          => staticPaths = Returned([paths |-> <<>>, fallback |-> "blocking"])
    /\ RouteKeys.outcome = "returned"
          => /\ staticPaths.outcome = "returned"
             /\ staticPaths.value.paths = RouteKeys.value
             /\ staticPaths.value.fallback = "blocking"

C15_Witness ==
    /\ RouteKeys.outcome = "returned" /\ UpstreamFailure(RouteKeys)
    /\ Len(RouteKeys.seen.posts) = 2
    /\ staticPaths.outcome = "returned"
    /\ staticPaths.value.paths = <<>>
    /\ Detail.outcome = "returned" /\ Detail.idRequested = <<"3">>
    /\ page.outcome = "returned"
    /\ page.value.title = ErrorTitle

\* C16: when getAllPostIds returned a route key for an id and the collection
\* served to a later getPostData of that id no longer holds a record with it,
\* getPostData returns the empty fields with that id: it does not raise, and
\* returns neither the error post nor the fields of the deleted record.
C16_DeletedPostEmptyFields ==
    (/\ RouteKeys.outcome = "returned"
     /\ \E i \in 1..Len(RouteKeys.value) :
           RouteKeys.value[i].params.id = Detail.idRequested
     /\ Detail.outcome # "none" /\ SuccessfulFetch(Detail)
     /\ ~Present(Detail.idRequested, Detail.seen.posts))
        => /\ Detail.outcome = "returned"
           /\ Detail.value = EmptyFields(Detail.idRequested)

C16_Witness ==
    /\ RouteKeys.outcome = "returned" /\ RouteKeys.at = 0
    /\ RouteKeys.value[2].params.id = <<"1", "0">>
    /\ Detail.outcome = "returned" /\ Detail.at = 1
    /\ Detail.idRequested = <<"1", "0">>
    /\ Len(Detail.seen.posts) = 2
    /\ ~Present(<<"1", "0">>, Detail.seen.posts)
    /\ Detail.value = EmptyFields(<<"1", "0">>)

SummaryIds == { Summaries.value[i].id : i \in 1..Len(Summaries.value) }
RouteIds == { RouteKeys.value[i].params.id : i \in 1..Len(RouteKeys.value) }

\* C17: when the three operations have returned from the same successful
\* response, getSortedPostsData and getAllPostIds return the same set of ids,
\* and for an id of that set getPostData returns that id with the title and
\* date of a PostSummary with that id, those of the first record with that
\* id in the order of the route keys.
C17_OperationsAgree ==
    (/\ Summaries.outcome = "returned" /\ SuccessfulFetch(Summaries)
     /\ RouteKeys.outcome = "returned" /\ RouteKeys.seen = Summaries.seen
     /\ Detail.outcome = "returned" /\ Detail.seen = Summaries.seen)
        => /\ SummaryIds = RouteIds
           /\ Detail.idRequested \in RouteIds
                 => /\ Detail.value.id = Detail.idRequested
                    /\ \E i \in 1..Len(Summaries.value) :
                          Summaries.value[i] = [id |-> Detail.value.id,
                                                title |-> Detail.value.title,
                                                date |-> Detail.value.date]
                    /\ LET k == CHOOSE i \in 1..Len(RouteKeys.value) :
                                   /\ RouteKeys.value[i].params.id = Detail.idRequested
                                   /\ \A j \in 1..(i - 1) :
                                         RouteKeys.value[j].params.id # Detail.idRequested
                       IN /\ Detail.value.title = Detail.seen.posts[k].post_title
                          /\ Detail.value.date = Detail.seen.posts[k].post_date

C17_Witness ==
    /\ Summaries.outcome = "returned" /\ SuccessfulFetch(Summaries)
    /\ RouteKeys.outcome = "returned"
    /\ Detail.outcome = "returned"
    /\ Summaries.seen.posts =
          << RemotePost(3, Beta, DateBeta, HtmlBeta),
             RemotePost(10, Alpha, DateAlpha, HtmlAlpha),
             RemotePost(3, alpha, DateAlpha, HtmlOther) >>
    /\ SummaryIds = { <<"3">>, <<"1", "0">> }
    /\ RouteIds = SummaryIds
    /\ Detail.idRequested = <<"3">>
    /\ Detail.value.title = Beta
    /\ Summaries.value[3].title = Beta
    /\ Summaries.value[3].date = Detail.value.date

====
